---- MODULE Spec2Model ----
(***************************************************************************)
(* A model of the closed-captioning code of the softphone.                 *)
(*                                                                         *)
(*   src/unnamed/part_000  CaptionProcessor, the audio-worklet processor:  *)
(*                         an amplitude-threshold activity detector and a  *)
(*                         fixed-size accumulation window.  (SpecW)        *)
(*   src/captions.js       ClosedCaptioning, the caption controller: two   *)
(*                         recognition sessions, the transcript, restart   *)
(*                         handling.  (Spec, SpecT, SpecFeed)              *)
(***************************************************************************)
EXTENDS Integers, Sequences, FiniteSets, TLC

(***************************************************************************)
(* PART 1.  CaptionProcessor (src/unnamed/part_000)                        *)
(*                                                                         *)
(* Amplitudes are exact numbers in units of 1/1000, so that the threshold  *)
(* 0.01 is the integer 10.  The mean of a block is sum/length; the model   *)
(* compares sum with threshold*length, which is the same comparison.       *)
(***************************************************************************)

\* this.silenceThreshold = 0.01, in units of 1/1000
silenceThreshold == 10

\* this.maxSilenceFrames = 30
maxSilenceFrames == 30

\* this.bufferSize (4096 in the source); the model is checked with a small
\* window, the code is the same for every size
bufferSize == 2

\* the longest input block process() is given
MaxBlock == 3

\* silenceFrames grows without bound while the detector is inactive; the
\* model stops feeding quiet blocks when the counter reaches this value
SilenceCap == 32

\* sample values: -20 (|x| above the threshold), 0 (silence).  A block
\* <<-20, 0>> has mean exactly 10, the threshold.
Samples == {-20, 0}

VARIABLES
    procIsActive,    \* CaptionProcessor.isActive
    silenceFrames,   \* CaptionProcessor.silenceFrames
    buffer,          \* CaptionProcessor.buffer, indexed 0..bufferSize-1
    bufferIndex,     \* CaptionProcessor.bufferIndex
    port,            \* the messages the last constructor/process() call posted
    input,           \* inputs[0][0] of the last process() call
    quietRun,        \* observer: non-empty quiet blocks since the last loud one
    alive,           \* what the last process() call returned (keep alive)
    stream           \* observer: where the stream of posted messages stands

wvars == <<procIsActive, silenceFrames, buffer, bufferIndex, port, input,
           quietRun, alive, stream>>

\* the state of the caption controller (PART 2)
VARIABLES
    variant,               \* which definition of the class is loaded
    maxHistoryLength,      \* options.maxHistoryLength
    speechSupported,       \* window.SpeechRecognition || webkitSpeechRecognition
    audioWorkletSupported, \* this.audioWorkletSupported
    captionsElement,       \* whether `#captions .captions` exists
    isActive,              \* this.isActive
    handle,                \* side -> whether this.(remote)speechRecognition is set
    eng,                   \* side -> state of that engine session
    timers,                \* side -> delayed retries (setTimeout) pending
    initPc,                \* initialize(): "idle", or suspended at its await
    initRejected,          \* the awaited promise is already rejected
    audioContext,          \* this.audioContext: "null", "running", "closed"
    captionProcessor,      \* whether this.captionProcessor (the node) is set
    inflight,              \* worklet messages posted and not yet delivered
    captionHistory,        \* this.captionHistory
    currentSpeaker,        \* this.currentSpeaker ("null" for null)
    rendered,              \* the caption lines in the captions element
    hidden,                \* the container carries the class `hidden`
    last,                  \* what the last step was and what it called
    phase,                 \* observer: "fresh", "live", "failed", "stopped"
    unrestarted,           \* observer: side -> a termination has no start() yet
    setupRaised,           \* observer: a setup step of the initialize() call raised
    fed                    \* observer (SpecFeed): the fragments fed so far

cvars == <<variant, maxHistoryLength, speechSupported, audioWorkletSupported,
           captionsElement, isActive, handle, eng, timers, initPc,
           initRejected, audioContext, captionProcessor, inflight,
           captionHistory, currentSpeaker, rendered, hidden, last, phase,
           unrestarted, setupRaised, fed>>

vars == <<wvars, cvars>>

\* Math.abs
Abs(x) == IF x < 0 THEN -x ELSE x

\* the loop of lines 54-57: audioLevel += Math.abs(input[i])
RECURSIVE AbsSum(_, _)
AbsSum(inp, i) ==
    IF i > Len(inp) THEN 0 ELSE Abs(inp[i]) + AbsSum(inp, i + 1)

\* mutant: the comparison of line 61 made non-strict
IsLoudGe(inp) == AbsSum(inp, 1) >= silenceThreshold * Len(inp)

\* line 58 and 61: audioLevel /= input.length; audioLevel > this.silenceThreshold
IsLoud(inp) == AbsSum(inp, 1) > silenceThreshold * Len(inp)

\* the level field of the speech_start / speech_end messages: the mean, kept
\* as the pair <<sum, length>>
Level(inp) == <<AbsSum(inp, 1), Len(inp)>>

\* mutant: the hangover test of line 74 made non-strict
HangoverExceededGe(n) == n >= maxSilenceFrames

\* line 74: this.silenceFrames > this.maxSilenceFrames
HangoverExceeded(n) == n > maxSilenceFrames

\* mutant: speech_start posted on every block above the threshold, without
\* the test of line 64
DetectRepeatStart(active, frames, inp) ==
    IF IsLoud(inp)
    THEN [isActive |-> TRUE,
          silenceFrames |-> 0,
          msgs |-> << [status |-> "speech_start", level |-> Level(inp)] >>]
    ELSE IF active /\ HangoverExceeded(frames + 1)
         THEN [isActive |-> FALSE,
               silenceFrames |-> frames + 1,
               msgs |-> << [status |-> "speech_end", level |-> Level(inp)] >>]
         ELSE [isActive |-> active,
               silenceFrames |-> frames + 1,
               msgs |-> << >>]

\* lines 60-81: the activity update.  Gives the new isActive, silenceFrames
\* and the messages posted.
Detect(active, frames, inp) ==
    IF IsLoud(inp)
    THEN [isActive |-> TRUE,
          silenceFrames |-> 0,
          msgs |-> IF ~active
                   THEN << [status |-> "speech_start", level |-> Level(inp)] >>
                   ELSE << >>]
    ELSE IF active /\ HangoverExceeded(frames + 1)
         THEN [isActive |-> FALSE,
               silenceFrames |-> frames + 1,
               msgs |-> << [status |-> "speech_end", level |-> Level(inp)] >>]
         ELSE [isActive |-> active,
               silenceFrames |-> frames + 1,
               msgs |-> << >>]

\* mutant: processBuffer posts the window whatever the activity state
processBufferAlways(buf, active) ==
    << [command |-> "processAudio", audioBuffer |-> buf] >>

\* lines 98-111: processBuffer posts a copy of the window only when active
processBuffer(buf, active) ==
    IF active
    THEN << [command |-> "processAudio", audioBuffer |-> buf] >>
    ELSE << >>

\* mutant: the window taken as full one sample early
BufferFullEarly(idx) == idx >= bufferSize - 1

\* line 88: this.bufferIndex >= this.bufferSize
BufferFull(idx) == idx >= bufferSize

\* lines 84-92: the buffering loop, from sample i on
RECURSIVE BufferLoop(_, _, _, _, _, _)
BufferLoop(inp, i, buf, idx, active, out) ==
    IF i > Len(inp)
    THEN [buffer |-> buf, bufferIndex |-> idx, msgs |-> out]
    ELSE LET b1 == [buf EXCEPT ![idx] = inp[i]]
         IN  IF BufferFull(idx + 1)
             THEN BufferLoop(inp, i + 1, b1, 0, active,
                             out \o processBuffer(b1, active))
             ELSE BufferLoop(inp, i + 1, b1, idx + 1, active, out)

\* the blocks process() is given: every sequence of samples up to MaxBlock
Blocks == UNION {[1..n -> Samples] : n \in 0..MaxBlock}

\* where the stream of posted messages stands after msgs, from st: "none"
\* (nothing posted yet), "closed" (initialized posted; every speech_start
\* has its speech_end), "open" (a speech_start has no speech_end yet), or
\* "bad": initialized was not first, a speech_start came while open, a
\* speech_end or a processAudio while not open
RECURSIVE StreamAfter(_, _)
StreamAfter(msgs, st) ==
    IF msgs = << >> THEN st
    ELSE LET m == Head(msgs)
             kind == IF "command" \in DOMAIN m THEN m.command ELSE m.status
             nxt == CASE kind = "initialized" ->
                           IF st = "none" THEN "closed" ELSE "bad"
                      [] kind = "speech_start" ->
                           IF st = "closed" THEN "open" ELSE "bad"
                      [] kind = "speech_end" ->
                           IF st = "open" THEN "closed" ELSE "bad"
                      [] OTHER ->
                           IF st = "open" THEN "open" ELSE "bad"
         IN  StreamAfter(Tail(msgs), nxt)

\* constructor, lines 9-33: the state after construction; init() posts
\* the initialized message
WInit ==
    /\ procIsActive = FALSE
    /\ silenceFrames = 0
    /\ buffer = [i \in 0..(bufferSize - 1) |-> 0]
    /\ bufferIndex = 0
    /\ port = << [status |-> "initialized", caption |-> "Captions ready..."] >>
    /\ input = << >>
    /\ quietRun = 0
    /\ alive = TRUE
    /\ stream = StreamAfter(port, "none")

\* mutant: an empty block counted as a quiet one, the return of line 40
\* after line 72
ProcessEmptyCounts ==
    /\ alive
    /\ silenceFrames < SilenceCap
    /\ input' = << >>
    /\ port' = << >>
    /\ silenceFrames' = silenceFrames + 1
    /\ alive' = TRUE
    /\ UNCHANGED <<procIsActive, buffer, bufferIndex, quietRun, stream>>
    /\ UNCHANGED cvars

\* process(), lines 35-41: a missing or empty input block returns true at
\* once.  The host calls process() as long as the last call returned true.
ProcessEmpty ==
    /\ alive
    /\ input' = << >>
    /\ port' = << >>
    /\ alive' = TRUE
    /\ UNCHANGED <<procIsActive, silenceFrames, buffer, bufferIndex, quietRun,
                   stream>>
    /\ UNCHANGED cvars

\* process(), lines 53-95, on a non-empty block
Process(inp) ==
    /\ alive
    /\ Len(inp) > 0
    /\ IsLoud(inp) \/ silenceFrames < SilenceCap
    /\ LET d == Detect(procIsActive, silenceFrames, inp)
           b == BufferLoop(inp, 1, buffer, bufferIndex, d.isActive, << >>)
       IN  /\ procIsActive' = d.isActive
           /\ silenceFrames' = d.silenceFrames
           /\ buffer' = b.buffer
           /\ bufferIndex' = b.bufferIndex
           /\ port' = d.msgs \o b.msgs
           /\ stream' = StreamAfter(d.msgs \o b.msgs, stream)
    /\ alive' = TRUE
    /\ input' = inp
    /\ quietRun' = IF AbsSum(inp, 1) > silenceThreshold * Len(inp)
                   THEN 0 ELSE quietRun + 1
    /\ UNCHANGED cvars

WNext ==
    \/ ProcessEmpty
    \/ \E inp \in Blocks : Process(inp)


(***************************************************************************)
(* PART 2.  ClosedCaptioning (src/captions.js)                             *)
(*                                                                         *)
(* The file holds two definitions of the class.  They differ in            *)
(* initializeRemoteTranscription, setupAudioWorklet and stop; `variant`    *)
(* says which one is loaded (1: lines 8-464, 2: lines 476-847).            *)
(*                                                                         *)
(* A text is a sequence of characters, so that trim() is computed.         *)
(* The recognition engine and the audio graph are the browser's: a         *)
(* start() may throw, an error or end event may arrive whenever the        *)
(* session runs.  An engine session is "off", "on", "ending" (its end      *)
(* event is pending) or "denied" (its end event is pending after a         *)
(* not-allowed / audio-capture error).                                     *)
(***************************************************************************)

\* the largest options.maxHistoryLength the model configures (0..this)
MaxHistoryBound == 2

\* the most delayed-retry timers pending per session at a time
MaxTimers == 1

\* the most worklet messages in flight to the main thread at a time
MaxInflight == 1

\* the most fragments fed in SpecFeed
MaxFed == 4

Sides == {"local", "remote"}

\* the transcripts a result event carries: empty, blank, and two texts, one
\* of them with surrounding blanks
RawTexts == { << >>, <<" ">>, <<"a">>, <<" ", "b", " ">> }

\* event.error of a recognition error event
ErrorKinds == {"no-speech", "not-allowed", "audio-capture", "network"}

\* event.data.status / command of a worklet message
MessageKinds == {"initialized", "speech_start", "speech_end", "processAudio"}


\* String.prototype.trim, on a sequence of characters
RECURSIVE TrimLeft(_)
TrimLeft(t) ==
    IF t # << >> /\ Head(t) = " " THEN TrimLeft(Tail(t)) ELSE t

RECURSIVE TrimRight(_)
TrimRight(t) ==
    IF t # << >> /\ t[Len(t)] = " "
    THEN TrimRight(SubSeq(t, 1, Len(t) - 1)) ELSE t

Trim(t) == TrimRight(TrimLeft(t))

\* mutant: the guard of line 342 without its trim()
BlankOnlyEmpty(t) == t = << >>

\* lines 341-342: !text || text.trim() === ''
Blank(t) == t = << >> \/ Trim(t) = << >>

\* line 356: this.captionHistory.length > this.options.maxHistoryLength
OverLimit(h, max) == Len(h) > max

\* lines 341-369: updateCaption without its rendering; path names the
\* branch taken
UpdateHistory(h, cur, max, el, text, speaker) ==
    IF Blank(text) \/ ~el
    THEN [captionHistory |-> h, currentSpeaker |-> cur, path |-> "ignored"]
    ELSE LET e == [speaker |-> speaker, text |-> Trim(text)]
         IN  IF cur # speaker
             THEN LET h1 == Append(h, e)
                  IN  [captionHistory |-> IF OverLimit(h1, max) THEN Tail(h1) ELSE h1,
                       currentSpeaker |-> speaker,
                       path |-> "new"]
             ELSE IF Len(h) > 0
                  THEN [captionHistory |-> [h EXCEPT ![Len(h)].text = Trim(text)],
                        currentSpeaker |-> cur,
                        path |-> "replace"]
                  ELSE [captionHistory |-> Append(h, e),
                        currentSpeaker |-> cur,
                        path |-> "first"]

\* lines 389-417: renderCaptions, one line per entry: its class, its label
\* and its text
RenderLines(h) ==
    [i \in 1..Len(h) |->
        [class |-> h[i].speaker,
         label |-> IF h[i].speaker = "local" THEN "You: " ELSE "Caller: ",
         text  |-> h[i].text]]

\* lines 379-384: updateSpeakerStatus
UpdateSpeakerStatus(cur, speaker) == IF cur # speaker THEN speaker ELSE cur

\* the record `last` of a step: the sessions whose start() the step called,
\* what initialize returned in the step ("true", "false"; "none": the step
\* returned nothing, or initialize is suspended; "threw": the step ended
\* with an exception), whether the step was a stop() call and the sessions
\* whose stop() it called, and whether the step was an updateCaption call
\* that returned at one of its guards (lines 342, 345)
Step(started, ret) ==
    [started |-> started, ret |-> ret, stop |-> FALSE, stopped |-> {},
     ignored |-> FALSE]

StopStep(stopped, ret) ==
    [started |-> {}, ret |-> ret, stop |-> TRUE, stopped |-> stopped,
     ignored |-> FALSE]

CaptionStep(path) ==
    [Step({}, "none") EXCEPT !.ignored = (path = "ignored")]


\* constructor, lines 9-37, with the options and the page it is given
CInit ==
    /\ variant \in {1, 2}
    /\ maxHistoryLength \in 0..MaxHistoryBound
    /\ speechSupported \in BOOLEAN
    /\ audioWorkletSupported \in BOOLEAN
    /\ captionsElement \in BOOLEAN
    /\ isActive = FALSE
    /\ handle = [s \in Sides |-> FALSE]
    /\ eng = [s \in Sides |-> "off"]
    /\ timers = [s \in Sides |-> 0]
    /\ initPc = "idle"
    /\ initRejected = FALSE
    /\ audioContext = "null"
    /\ captionProcessor = FALSE
    /\ inflight = << >>
    /\ captionHistory = << >>
    /\ currentSpeaker = "null"
    /\ rendered = << >>
    /\ hidden = FALSE
    /\ last = Step({}, "none")
    /\ phase = "fresh"
    /\ unrestarted = [s \in Sides |-> FALSE]
    /\ setupRaised = FALSE
    /\ fed = << >>

\* what the browser allows of a start(): it throws on a session that is
\* already started; a throw inside a restart schedules a retry timer, which
\* the model bounds
StartAllowed(s, e, t, ok, retry) ==
    IF ok THEN e[s] # "on" ELSE (retry => t[s] < MaxTimers)

\* mutant: restartRemoteSpeechRecognition written as a copy of
\* restartSpeechRecognition that still uses this.speechRecognition
RestartWrongHandle(s, e, t, ok) ==
    IF isActive /\ handle["local"]
    THEN IF ok
         THEN [eng |-> [e EXCEPT !["local"] = "on"], timers |-> t,
               started |-> {"local"}]
         ELSE [eng |-> e, timers |-> [t EXCEPT ![s] = @ + 1],
               started |-> {"local"}]
    ELSE [eng |-> e, timers |-> t, started |-> {}]

\* mutant: the catch of lines 260-272 schedules no retry
RestartNoRetry(s, e, t, ok) ==
    IF isActive /\ handle[s]
    THEN IF ok
         THEN [eng |-> [e EXCEPT ![s] = "on"], timers |-> t, started |-> {s}]
         ELSE [eng |-> e, timers |-> t, started |-> {s}]
    ELSE [eng |-> e, timers |-> t, started |-> {}]

\* lines 256-274 and 279-297: restartSpeechRecognition and
\* restartRemoteSpeechRecognition, up to the setTimeout; ok says whether the
\* start() returns. e and t are the sessions and timers when it is called.
Restart(s, e, t, ok) ==
    IF isActive /\ handle[s]
    THEN IF ok
         THEN [eng |-> [e EXCEPT ![s] = "on"], timers |-> t, started |-> {s}]
         ELSE [eng |-> e, timers |-> [t EXCEPT ![s] = @ + 1], started |-> {s}]
    ELSE [eng |-> e, timers |-> t, started |-> {}]

NoRestart(e, t) == [eng |-> e, timers |-> t, started |-> {}]

\* lines 137-146 (local), 212-218 (remote, variant 1), 664-666 (remote,
\* variant 2): whether onerror calls the restart function
ErrorRestarts(s, err) ==
    IF s = "local" THEN err # "no-speech"
    ELSE IF variant = 1 THEN err # "audio-capture" /\ err # "not-allowed"
    ELSE FALSE

\* lines 148-153 (local), 221-225 (remote, variant 1); variant 2 sets no
\* onend on the remote session
EndRestarts(s) ==
    (s = "local" \/ variant = 1) /\ isActive

Denial(err) == err \in {"not-allowed", "audio-capture"}

\* the session after the engine has reported err
AfterError(err) ==
    IF err = "no-speech" THEN "on"
    ELSE IF Denial(err) THEN "denied" ELSE "ending"

\* initialize(), lines 45-68 (513-536), to its return or to its await.
\* remoteGiven: remoteStream is not null.  thr: the setup step that throws:
\* "local" (line 156), "graph" (lines 171-183), "remote" (line 239 / 669).
\* The model tracks one session object per side: initialize is called when
\* it is not already suspended and the sessions of an earlier call have
\* delivered their end events.
InitializeCall(remoteGiven, thr) ==
    /\ UNCHANGED wvars
    /\ initPc = "idle"
    /\ \A s \in Sides : eng[s] = "off"
    /\ thr \in {"none", "local", "graph", "remote"}
    /\ thr = "local" => speechSupported
    /\ thr = "graph" => remoteGiven /\ variant = 1
    /\ thr = "remote" => remoteGiven /\ speechSupported
    /\ hidden' = FALSE
    /\ unrestarted' = [s \in Sides |-> FALSE]
    /\ setupRaised' = (thr # "none")
    /\ UNCHANGED <<variant, maxHistoryLength, speechSupported,
                   audioWorkletSupported, captionsElement, timers,
                   captionProcessor, inflight, captionHistory,
                   currentSpeaker, rendered, fed>>
    /\ LET localStarted == IF speechSupported THEN {"local"} ELSE {}
       IN
       IF thr = "local"
       THEN \* line 156 throws: caught at line 64, return false
            /\ handle' = [handle EXCEPT !["local"] = TRUE]
            /\ UNCHANGED <<eng, isActive, initPc, initRejected, audioContext>>
            /\ phase' = "failed"
            /\ last' = Step({"local"}, "false")
       ELSE
       LET h1 == IF speechSupported
                 THEN [handle EXCEPT !["local"] = TRUE] ELSE handle
           e1 == IF speechSupported
                 THEN [eng EXCEPT !["local"] = "on"] ELSE eng
       IN
       IF ~remoteGiven
       THEN \* lines 62-63
            /\ handle' = h1
            /\ eng' = e1
            /\ isActive' = TRUE
            /\ phase' = "live"
            /\ UNCHANGED <<initPc, initRejected, audioContext>>
            /\ last' = Step(localStarted, "true")
       ELSE
            /\ phase' = "live"
            /\ UNCHANGED isActive
            /\ IF variant = 1
               THEN \* lines 163-251
                    /\ audioContext' = "running"
                    /\ IF thr = "graph" \/ ~speechSupported
                       THEN /\ handle' = h1
                            /\ eng' = e1
                            /\ initPc' = "micro"
                            /\ initRejected' = (thr = "graph")
                            /\ last' = Step(localStarted, "none")
                       ELSE /\ handle' = [h1 EXCEPT !["remote"] = TRUE]
                            /\ eng' = IF thr = "remote" THEN e1
                                      ELSE [e1 EXCEPT !["remote"] = "on"]
                            /\ initPc' = IF thr # "remote" /\ audioWorkletSupported
                                         THEN "macro" ELSE "micro"
                            /\ initRejected' = (thr = "remote")
                            /\ last' = Step(localStarted \cup {"remote"}, "none")
               ELSE \* lines 631-675: every error is caught and logged
                    /\ UNCHANGED audioContext
                    /\ initPc' = "micro"
                    /\ initRejected' = FALSE
                    /\ IF ~speechSupported
                       THEN /\ handle' = h1
                            /\ eng' = e1
                            /\ last' = Step(localStarted, "none")
                       ELSE /\ handle' = [h1 EXCEPT !["remote"] = TRUE]
                            /\ eng' = IF thr = "remote" THEN e1
                                      ELSE [e1 EXCEPT !["remote"] = "on"]
                            /\ last' = Step(localStarted \cup {"remote"}, "none")

\* mutant: setupAudioWorklet called without the guard of line 242, so that
\* addModule raises where the audio worklet is not supported
InitializeResumeNoGuard(throws) ==
    /\ UNCHANGED wvars
    /\ initPc # "idle"
    /\ throws => initPc = "macro"
    /\ initPc' = "idle"
    /\ initRejected' = FALSE
    /\ setupRaised' = (setupRaised \/ throws \/ ~audioWorkletSupported)
    /\ UNCHANGED <<variant, maxHistoryLength, speechSupported,
                   audioWorkletSupported, captionsElement, handle, eng, timers,
                   audioContext, inflight, captionHistory, currentSpeaker,
                   rendered, hidden, fed>>
    /\ IF initRejected \/ throws \/ ~audioWorkletSupported
       THEN /\ UNCHANGED <<isActive, captionProcessor>>
            /\ phase' = IF phase = "live" THEN "failed" ELSE phase
            /\ unrestarted' = [s \in Sides |-> FALSE]
            /\ last' = Step({}, "false")
       ELSE /\ isActive' = TRUE
            /\ captionProcessor' = (captionProcessor \/ initPc = "macro")
            /\ UNCHANGED <<phase, unrestarted>>
            /\ last' = Step({}, "true")

\* initialize() resumes after its await (line 58): the awaited promise is
\* settled.  At "macro" the await was on addModule (line 314): throws says
\* whether lines 314-330 raise.
InitializeResume(throws) ==
    /\ UNCHANGED wvars
    /\ initPc # "idle"
    /\ throws => initPc = "macro"
    /\ initPc' = "idle"
    /\ initRejected' = FALSE
    /\ setupRaised' = (setupRaised \/ throws)
    /\ UNCHANGED <<variant, maxHistoryLength, speechSupported,
                   audioWorkletSupported, captionsElement, handle, eng, timers,
                   audioContext, inflight, captionHistory, currentSpeaker,
                   rendered, hidden, fed>>
    /\ IF initRejected \/ throws
       THEN \* lines 64-66
            /\ UNCHANGED <<isActive, captionProcessor>>
            /\ phase' = IF phase = "live" THEN "failed" ELSE phase
            /\ unrestarted' = [s \in Sides |-> FALSE]
            /\ last' = Step({}, "false")
       ELSE \* lines 59-63
            /\ isActive' = TRUE
            /\ captionProcessor' = (captionProcessor \/ initPc = "macro")
            /\ UNCHANGED <<phase, unrestarted>>
            /\ last' = Step({}, "true")


\* mutant: the stop() calls of lines 428 and 437 outside their try: the
\* first one that throws ends stop() with the exception
StopUnguarded(thr) ==
    /\ UNCHANGED wvars
    /\ thr \subseteq {s \in Sides : handle[s]}
    /\ isActive' = FALSE
    /\ phase' = "stopped"
    /\ unrestarted' = [s \in Sides |-> FALSE]
    /\ UNCHANGED <<variant, maxHistoryLength, speechSupported,
                   audioWorkletSupported, captionsElement, handle, timers,
                   initPc, initRejected, captionProcessor, inflight, rendered,
                   fed, setupRaised>>
    /\ IF thr = {}
       THEN /\ eng' = [s \in Sides |->
                        IF handle[s] /\ eng[s] = "on" THEN "ending" ELSE eng[s]]
            /\ audioContext' = IF variant = 1 /\ audioContext # "null"
                               THEN "closed" ELSE audioContext
            /\ hidden' = TRUE
            /\ captionHistory' = << >>
            /\ currentSpeaker' = "null"
            /\ last' = StopStep({s \in Sides : handle[s]}, "none")
       ELSE /\ eng' = [s \in Sides |->
                        IF s = "local" /\ s \notin thr /\ eng[s] = "on"
                        THEN "ending" ELSE eng[s]]
            /\ UNCHANGED <<audioContext, hidden, captionHistory, currentSpeaker>>
            /\ last' = StopStep(IF "local" \in thr THEN {"local"}
                                ELSE {s \in Sides : handle[s]}, "threw")

\* stop(), lines 422-463 (819-846).  thr: the sessions whose stop() throws;
\* the throw is caught (lines 427-431, 436-440).  A started session whose
\* stop() returns is left with its end event pending.
Stop(thr) ==
    /\ UNCHANGED wvars
    /\ thr \subseteq {s \in Sides : handle[s]}
    /\ isActive' = FALSE
    /\ eng' = [s \in Sides |->
                 IF handle[s] /\ s \notin thr /\ eng[s] = "on"
                 THEN "ending" ELSE eng[s]]
    /\ audioContext' = IF variant = 1 /\ audioContext # "null"
                       THEN "closed" ELSE audioContext
    /\ hidden' = TRUE
    /\ captionHistory' = << >>
    /\ currentSpeaker' = "null"
    /\ phase' = "stopped"
    /\ unrestarted' = [s \in Sides |-> FALSE]
    /\ last' = StopStep({s \in Sides : handle[s]}, "none")
    /\ UNCHANGED <<variant, maxHistoryLength, speechSupported,
                   audioWorkletSupported, captionsElement, handle, timers,
                   initPc, initRejected, captionProcessor, inflight, rendered,
                   fed, setupRaised>>

\* mutant: renderCaptions called only where an entry is pushed, not where
\* the last entry's text is replaced
UpdateCaptionNoRerender(text, speaker) ==
    LET u == UpdateHistory(captionHistory, currentSpeaker, maxHistoryLength,
                           captionsElement, text, speaker)
    IN  /\ captionHistory' = u.captionHistory
        /\ currentSpeaker' = u.currentSpeaker
        /\ rendered' = IF u.path \in {"ignored", "replace"} THEN rendered
                       ELSE RenderLines(u.captionHistory)
        /\ last' = CaptionStep(u.path)

\* updateCaption(text, speaker), lines 341-373, with its renderCaptions
UpdateCaption(text, speaker) ==
    LET u == UpdateHistory(captionHistory, currentSpeaker, maxHistoryLength,
                           captionsElement, text, speaker)
    IN  /\ captionHistory' = u.captionHistory
        /\ currentSpeaker' = u.currentSpeaker
        /\ rendered' = IF u.path = "ignored" THEN rendered
                       ELSE RenderLines(u.captionHistory)
        /\ last' = CaptionStep(u.path)

\* onresult of a session, lines 128-135 and 201-209: the engine delivers a
\* result while the session runs or is ending
OnResult(s, text) ==
    /\ UNCHANGED wvars
    /\ handle[s]
    /\ eng[s] # "off"
    /\ initPc # "micro"
    /\ UpdateCaption(text, s)
    /\ UNCHANGED <<variant, maxHistoryLength, speechSupported,
                   audioWorkletSupported, captionsElement, isActive, handle,
                   eng, timers, initPc, initRejected, audioContext,
                   captionProcessor, inflight, hidden, phase, unrestarted, fed,
                   setupRaised>>

\* onerror of a session, lines 137-146, 212-218, 664-666.  ok: the start()
\* of the restart returns.
OnError(s, err, ok) ==
    /\ UNCHANGED wvars
    /\ handle[s]
    /\ eng[s] = "on"
    /\ initPc # "micro"
    /\ LET e1 == [eng EXCEPT ![s] = AfterError(err)]
           r  == IF ErrorRestarts(s, err)
                 THEN Restart(s, e1, timers, ok) ELSE NoRestart(e1, timers)
       IN  /\ IF r.started = {} THEN ok
              ELSE StartAllowed(s, e1, timers, ok, TRUE)
           /\ eng' = r.eng
           /\ timers' = r.timers
           /\ last' = Step(r.started, "none")
           /\ unrestarted' =
                IF r.started # {} THEN [unrestarted EXCEPT ![s] = FALSE]
                ELSE IF phase = "live" /\ err # "no-speech" /\ ~Denial(err)
                     THEN [unrestarted EXCEPT ![s] = TRUE]
                     ELSE unrestarted
    /\ UNCHANGED <<variant, maxHistoryLength, speechSupported,
                   audioWorkletSupported, captionsElement, isActive, handle,
                   initPc, initRejected, audioContext, captionProcessor,
                   inflight, captionHistory, currentSpeaker, rendered, hidden,
                   phase, fed, setupRaised>>

\* the end event of a session, lines 148-153 and 221-225: the session has
\* ended.  ok: the start() of the restart returns.
OnEnd(s, ok) ==
    /\ UNCHANGED wvars
    /\ handle[s]
    /\ eng[s] # "off"
    /\ initPc # "micro"
    /\ LET e1 == [eng EXCEPT ![s] = "off"]
           r  == IF EndRestarts(s)
                 THEN Restart(s, e1, timers, ok) ELSE NoRestart(e1, timers)
       IN  /\ IF r.started = {} THEN ok
              ELSE StartAllowed(s, e1, timers, ok, TRUE)
           /\ eng' = r.eng
           /\ timers' = r.timers
           /\ last' = Step(r.started, "none")
           /\ unrestarted' =
                IF r.started # {} THEN [unrestarted EXCEPT ![s] = FALSE]
                ELSE IF phase = "live" /\ eng[s] # "denied"
                     THEN [unrestarted EXCEPT ![s] = TRUE]
                     ELSE unrestarted
    /\ UNCHANGED <<variant, maxHistoryLength, speechSupported,
                   audioWorkletSupported, captionsElement, isActive, handle,
                   initPc, initRejected, audioContext, captionProcessor,
                   inflight, captionHistory, currentSpeaker, rendered, hidden,
                   phase, fed, setupRaised>>

\* mutant: the timer callback schedules itself again when its start()
\* throws
TimerFireReschedules(s, ok) ==
    /\ UNCHANGED wvars
    /\ timers[s] > 0
    /\ initPc # "micro"
    /\ IF isActive
       THEN /\ StartAllowed(s, eng, timers, ok, FALSE)
            /\ eng' = IF ok THEN [eng EXCEPT ![s] = "on"] ELSE eng
            /\ timers' = IF ok THEN [timers EXCEPT ![s] = @ - 1] ELSE timers
            /\ last' = Step({s}, "none")
            /\ unrestarted' = [unrestarted EXCEPT ![s] = FALSE]
       ELSE /\ ok
            /\ timers' = [timers EXCEPT ![s] = @ - 1]
            /\ UNCHANGED <<eng, unrestarted>>
            /\ last' = Step({}, "none")
    /\ UNCHANGED <<variant, maxHistoryLength, speechSupported,
                   audioWorkletSupported, captionsElement, isActive, handle,
                   initPc, initRejected, audioContext, captionProcessor,
                   inflight, captionHistory, currentSpeaker, rendered, hidden,
                   phase, fed, setupRaised>>

\* the setTimeout callback of lines 263-271 and 286-294.  ok: its start()
\* returns.
TimerFire(s, ok) ==
    /\ UNCHANGED wvars
    /\ timers[s] > 0
    /\ initPc # "micro"
    /\ timers' = [timers EXCEPT ![s] = @ - 1]
    /\ IF isActive
       THEN /\ StartAllowed(s, eng, timers, ok, FALSE)
            /\ eng' = IF ok THEN [eng EXCEPT ![s] = "on"] ELSE eng
            /\ last' = Step({s}, "none")
            /\ unrestarted' = [unrestarted EXCEPT ![s] = FALSE]
       ELSE /\ ok
            /\ UNCHANGED <<eng, unrestarted>>
            /\ last' = Step({}, "none")
    /\ UNCHANGED <<variant, maxHistoryLength, speechSupported,
                   audioWorkletSupported, captionsElement, isActive, handle,
                   initPc, initRejected, audioContext, captionProcessor,
                   inflight, captionHistory, currentSpeaker, rendered, hidden,
                   phase, fed, setupRaised>>

\* the worklet node posts a message to the main thread (part_000 lines 29,
\* 66, 76, 105) while the audio context runs
WorkletPost(m) ==
    /\ UNCHANGED wvars
    /\ captionProcessor
    /\ audioContext = "running"
    /\ initPc # "micro"
    /\ Len(inflight) < MaxInflight
    /\ inflight' = Append(inflight, m)
    /\ last' = Step({}, "none")
    /\ UNCHANGED <<variant, maxHistoryLength, speechSupported,
                   audioWorkletSupported, captionsElement, isActive, handle,
                   eng, timers, initPc, initRejected, audioContext,
                   captionProcessor, captionHistory, currentSpeaker, rendered,
                   hidden, phase, unrestarted, fed, setupRaised>>

\* mutant: onmessage without the status test of line 324
OnMessageAny ==
    /\ UNCHANGED wvars
    /\ inflight # << >>
    /\ initPc # "micro"
    /\ inflight' = Tail(inflight)
    /\ currentSpeaker' = UpdateSpeakerStatus(currentSpeaker, "remote")
    /\ last' = Step({}, "none")
    /\ UNCHANGED <<variant, maxHistoryLength, speechSupported,
                   audioWorkletSupported, captionsElement, isActive, handle,
                   eng, timers, initPc, initRejected, audioContext,
                   captionProcessor, captionHistory, rendered, hidden, phase,
                   unrestarted, fed, setupRaised>>

\* captionProcessor.port.onmessage, lines 323-327
OnMessage ==
    /\ UNCHANGED wvars
    /\ inflight # << >>
    /\ initPc # "micro"
    /\ inflight' = Tail(inflight)
    /\ currentSpeaker' = IF Head(inflight) = "speech_start"
                         THEN UpdateSpeakerStatus(currentSpeaker, "remote")
                         ELSE currentSpeaker
    /\ last' = Step({}, "none")
    /\ UNCHANGED <<variant, maxHistoryLength, speechSupported,
                   audioWorkletSupported, captionsElement, isActive, handle,
                   eng, timers, initPc, initRejected, audioContext,
                   captionProcessor, captionHistory, rendered, hidden, phase,
                   unrestarted, fed, setupRaised>>

\* updateCaption called directly on the controller, the fragment recorded
Feed(s, text) ==
    /\ UNCHANGED wvars
    /\ Len(fed) < MaxFed
    /\ ~Blank(text)
    /\ UpdateCaption(text, s)
    /\ fed' = Append(fed, [speaker |-> s, text |-> text])
    /\ UNCHANGED <<variant, maxHistoryLength, speechSupported,
                   audioWorkletSupported, captionsElement, isActive, handle,
                   eng, timers, initPc, initRejected, audioContext,
                   captionProcessor, inflight, hidden, phase, unrestarted,
                   setupRaised>>

(***************************************************************************)
(* The specifications.                                                     *)
(*                                                                         *)
(*   Spec      the controller's sessions: every setup failure, every       *)
(*             error, end and retry; results carry one text.               *)
(*   SpecT     the controller's transcript: every text, every configured   *)
(*             maximum, worklet messages; the engine raises no error and   *)
(*             no start() throws.                                          *)
(*   SpecFeed  updateCaption alone, on a fresh controller.                 *)
(*   SpecW     the worklet processor alone.                                *)
(***************************************************************************)

\* the worklet processor as constructed, not stepped
WIdle == WInit

\* the one text of the results of Spec
SessionTexts == { <<"a">> }

Init ==
    /\ CInit
    /\ WIdle
    /\ maxHistoryLength = 1
    /\ captionsElement
    /\ variant = 2 => ~audioWorkletSupported

Next ==
    \/ \E r \in BOOLEAN, thr \in {"none", "local", "graph", "remote"} :
          InitializeCall(r, thr)
    \/ \E t \in BOOLEAN : InitializeResume(t)
    \/ \E thr \in SUBSET Sides : Stop(thr)
    \/ \E s \in Sides, text \in SessionTexts : OnResult(s, text)
    \/ \E s \in Sides, err \in ErrorKinds, ok \in BOOLEAN : OnError(s, err, ok)
    \/ \E s \in Sides, ok \in BOOLEAN : OnEnd(s, ok)
    \/ \E s \in Sides, ok \in BOOLEAN : TimerFire(s, ok)

Spec == Init /\ [][Next]_vars

InitT ==
    /\ CInit
    /\ WIdle
    /\ speechSupported
    /\ variant = 2 => ~audioWorkletSupported

NextT ==
    \/ \E r \in BOOLEAN : InitializeCall(r, "none")
    \/ InitializeResume(FALSE)
    \/ Stop({})
    \/ \E s \in Sides, text \in RawTexts : OnResult(s, text)
    \/ \E s \in Sides : OnEnd(s, TRUE)
    \/ \E m \in MessageKinds : WorkletPost(m)
    \/ OnMessage

SpecT == InitT /\ [][NextT]_vars

InitFeed ==
    /\ CInit
    /\ WIdle
    /\ variant = 1
    /\ speechSupported
    /\ audioWorkletSupported
    /\ captionsElement

NextFeed == \E s \in Sides, text \in RawTexts : Feed(s, text)

SpecFeed == InitFeed /\ [][NextFeed]_vars

\* the controller as constructed, never started
CIdle ==
    /\ CInit
    /\ variant = 1
    /\ maxHistoryLength = 0
    /\ speechSupported
    /\ audioWorkletSupported
    /\ captionsElement

InitW == WInit /\ CIdle

NextW == WNext

SpecW == InitW /\ [][NextW]_vars


(***************************************************************************)
(* PART 3.  The claims.                                                    *)
(***************************************************************************)

\* the sum of |x| over a block, by its last sample
RECURSIVE SumAbs(_)
SumAbs(inp) ==
    IF inp = << >> THEN 0
    ELSE LET x == inp[Len(inp)]
         IN  (IF x < 0 THEN 0 - x ELSE x) + SumAbs(SubSeq(inp, 1, Len(inp) - 1))

\* a non-empty block whose mean absolute amplitude is above the threshold
MeanAbove(inp) == inp # << >> /\ SumAbs(inp) > silenceThreshold * Len(inp)

\* a non-empty block whose mean absolute amplitude is the threshold or below
MeanNotAbove(inp) == inp # << >> /\ SumAbs(inp) <= silenceThreshold * Len(inp)

\* how many of the messages posted carry this status / this command
CountStatus(msgs, st) ==
    Cardinality({i \in DOMAIN msgs :
                    "status" \in DOMAIN msgs[i] /\ msgs[i].status = st})

CountCommand(msgs, c) ==
    Cardinality({i \in DOMAIN msgs :
                    "command" \in DOMAIN msgs[i] /\ msgs[i].command = c})

\* C5: the detector goes Inactive->Active in exactly the process() calls in
\* which it was Inactive and the block's mean absolute amplitude is strictly
\* above the threshold (a block whose mean is the threshold or below never
\* activates it), and a call posts one speech_start when it makes that
\* transition and none otherwise.
C5_ActivationExact ==
    [][ /\ (~procIsActive /\ procIsActive') <=> (~procIsActive /\ MeanAbove(input'))
        /\ CountStatus(port', "speech_start") =
             (IF ~procIsActive /\ procIsActive' THEN 1 ELSE 0)
        /\ (MeanNotAbove(input') /\ ~procIsActive => ~procIsActive') ]_vars

\* C5 witness: a call has just activated the detector on a block above the
\* threshold and posted its speech_start
C5_Witness ==
    /\ procIsActive
    /\ MeanAbove(input)
    /\ CountStatus(port, "speech_start") = 1

\* C6: once Active, the detector goes Active->Inactive exactly on the block
\* that makes the count of consecutive blocks at or below the threshold
\* exceed the hangover limit (the 31st for a limit of 30), posting one
\* speech_end then and none otherwise; a block above the threshold resets
\* the count to 0 and keeps the detector Active.
C6_DeactivationExact ==
    [][ /\ (procIsActive /\ ~procIsActive') <=>
             (procIsActive /\ MeanNotAbove(input')
                /\ quietRun' = maxSilenceFrames + 1)
        /\ CountStatus(port', "speech_end") =
             (IF procIsActive /\ ~procIsActive' THEN 1 ELSE 0)
        /\ (procIsActive /\ MeanAbove(input') =>
              procIsActive' /\ silenceFrames' = 0)
        /\ (procIsActive' => quietRun' <= maxSilenceFrames) ]_vars

\* C6 witness: the 31st consecutive quiet block has just deactivated the
\* detector
C6_Witness ==
    /\ ~procIsActive
    /\ quietRun = maxSilenceFrames + 1
    /\ MeanNotAbove(input)
    /\ CountStatus(port, "speech_end") = 1

\* C7: every non-empty block is written to the window whatever the activity
\* state; each time the window fills, one processAudio message is posted
\* if and only if the detector is Active after the block's activity update;
\* the write index wraps to 0, so that 0 <= bufferIndex < bufferSize between
\* calls.
C7_WindowFill ==
    /\ [](bufferIndex \in 0..(bufferSize - 1))
    /\ [][ input' # << >> =>
             LET n == Len(input')
             IN  /\ bufferIndex' = (bufferIndex + n) % bufferSize
                 /\ CountCommand(port', "processAudio") =
                      (IF procIsActive' THEN (bufferIndex + n) \div bufferSize
                       ELSE 0)
                 /\ \A k \in 1..n :
                      k > n - bufferSize =>
                        buffer'[(bufferIndex + k - 1) % bufferSize] = input'[k]
                 /\ \A i \in DOMAIN port' :
                      "command" \in DOMAIN port'[i] =>
                          DOMAIN port'[i].audioBuffer = 0..(bufferSize - 1) ]_vars

\* C7 witness: a block has just filled the window while the detector is
\* Active, and the window was posted
C7_Witness ==
    /\ procIsActive
    /\ input # << >>
    /\ bufferIndex = 0
    /\ CountCommand(port, "processAudio") = 1

\* C7, the other case: the window has filled while Inactive, nothing posted
C7_WitnessInactive ==
    /\ ~procIsActive
    /\ Len(input) >= bufferSize
    /\ port = << >>


\* the entry updateCaption makes of a fragment
Entry(s, text) == [speaker |-> s, text |-> Trim(text)]

\* the fragment is one updateCaption acts on: its text is not blank and the
\* captions element exists
Effective(text) == ~Blank(text) /\ captionsElement

\* C1: in every reachable state the transcript is no longer than the
\* configured maximum, for every configured maximum, 0 and 1 included.
C1_LengthWithinMaximum ==
    Len(captionHistory) <= maxHistoryLength

\* C2: a fragment of the speaker of the last transcript entry replaces that
\* entry's text and appends nothing; a fragment of another speaker appends
\* a new entry (the oldest evicted when over capacity); so the transcript
\* never gains a new entry for the speaker of its last entry.
C2_SameSpeakerReplaces ==
    [][ \A s \in Sides, text \in RawTexts :
          (OnResult(s, text) /\ Effective(text) /\ captionHistory # << >>) =>
             LET h == captionHistory
                 e == Entry(s, text)
             IN  IF h[Len(h)].speaker = s
                 THEN captionHistory' = [h EXCEPT ![Len(h)].text = e.text]
                 ELSE captionHistory' \in {Append(h, e), Tail(Append(h, e))} ]_vars

\* the fragment makes updateCaption push a new entry
Appends(s, text) ==
    Effective(text) /\ (currentSpeaker # s \/ captionHistory = << >>)

\* C3: when an append makes the transcript exceed the configured maximum,
\* exactly one entry is removed and it is the oldest (index 0); the
\* remaining entries keep their order and the appended entry is last: the
\* transcript becomes the old one with the new entry appended, less its
\* first entry.
C3_EvictsOldest ==
    [][ \A s \in Sides, text \in RawTexts :
          (OnResult(s, text) /\ Appends(s, text)
             /\ Len(captionHistory) + 1 > maxHistoryLength) =>
             captionHistory' = Tail(Append(captionHistory, Entry(s, text))) ]_vars

\* C3, with a maximum of at least 1 (not a claim: there the eviction is as
\* stated and the appended entry is the last one)
C3_EvictsOldestFromOne ==
    [][ \A s \in Sides, text \in RawTexts :
          (OnResult(s, text) /\ Appends(s, text) /\ maxHistoryLength >= 1
             /\ Len(captionHistory) + 1 > maxHistoryLength) =>
             /\ captionHistory' = Tail(Append(captionHistory, Entry(s, text)))
             /\ Len(captionHistory') = maxHistoryLength
             /\ captionHistory'[Len(captionHistory')] = Entry(s, text) ]_vars

\* the reference transcript of a sequence of fragments: each maximal run of
\* fragments of one speaker collapsed into one entry carrying the run's last
\* text
RECURSIVE Collapse(_)
Collapse(fs) ==
    IF fs = << >> THEN << >>
    ELSE LET init == Collapse(SubSeq(fs, 1, Len(fs) - 1))
             f == fs[Len(fs)]
         IN  IF init # << >> /\ init[Len(init)].speaker = f.speaker
             THEN [init EXCEPT ![Len(init)].text = Trim(f.text)]
             ELSE Append(init, [speaker |-> f.speaker, text |-> Trim(f.text)])

\* the last n entries of a sequence
LastN(q, n) == IF Len(q) <= n THEN q ELSE SubSeq(q, Len(q) - n + 1, Len(q))

\* C4: after any sequence of non-blank fragments fed to updateCaption on a
\* fresh controller the transcript is the reference result: the runs
\* collapsed, the last maxHistoryLength entries kept.
C4_EqualsReference ==
    captionHistory = LastN(Collapse(fed), maxHistoryLength)

\* C4, with a maximum of at least 1 (not a claim: the reference holds there)
C4_ReferenceFromOne ==
    maxHistoryLength >= 1 => captionHistory = LastN(Collapse(fed), maxHistoryLength)

\* C8: the permanent denial condition (error not-allowed or audio-capture)
\* makes the controller call no start() on that session: not in the error
\* handler, and not in the handler of the end event that follows the error.
C8_NoRestartOnDenial ==
    [][ \A s \in Sides, ok \in BOOLEAN :
          /\ \A err \in {"not-allowed", "audio-capture"} :
                OnError(s, err, ok) => s \notin last'.started
          /\ (OnEnd(s, ok) /\ eng[s] = "denied") => s \notin last'.started ]_vars

\* C9: after stop() and until a later initialize() is called, no step calls
\* start() on either session.
C9_NoStartAfterStop ==
    phase = "stopped" => last.started = {}

\* a session of a live call whose recoverable termination has been handled,
\* on which no start() has been called since, and for which nothing is left
\* that will call one: the session is ended, no retry timer is pending and
\* initialize is not suspended
Abandoned(s) ==
    /\ phase = "live"
    /\ isActive
    /\ initPc = "idle"
    /\ unrestarted[s]
    /\ eng[s] = "off"
    /\ timers[s] = 0

\* C10: while the call remains active, every recoverable termination of a
\* session is followed by a start() on that session: no session is left
\* abandoned.
C10_TerminationRestarted ==
    \A s \in Sides : ~Abandoned(s)

\* the controller's state other than the record of the last step and the
\* observers
ControllerState ==
    <<isActive, handle, eng, timers, initPc, initRejected, audioContext,
      captionProcessor, captionHistory, currentSpeaker, rendered, hidden>>

\* C11: the transient failure (error no-speech) causes no action: the error
\* handler of either session calls no start() and changes no controller
\* state.
C11_NoSpeechNoAction ==
    [][ \A s \in Sides, ok \in BOOLEAN :
          OnError(s, "no-speech", ok) =>
             /\ last'.started = {}
             /\ UNCHANGED ControllerState ]_vars

\* the step is the end handler or the error handler of session s
Terminated(s, ok) ==
    OnEnd(s, ok) \/ \E err \in ErrorKinds : OnError(s, err, ok)

\* C12 as claimed: a restart is issued only after the fixed delay: the end
\* and error handlers call no start() themselves.
C12_NoStartInHandler ==
    [][ \A s \in Sides, ok \in BOOLEAN :
          Terminated(s, ok) => last'.started = {} ]_vars

\* C12 amended: the restart start() is called inside the end / error
\* handler; a retry after the fixed delay is scheduled exactly when that
\* start() throws, and when the delay has elapsed the timer callback calls
\* start() exactly when the active flag is still set.
C12_DelayOnlyAfterThrow ==
    [][ \A s \in Sides, ok \in BOOLEAN :
          /\ Terminated(s, ok) =>
                /\ timers'[s] = timers[s] + 1 <=> (s \in last'.started /\ ~ok)
                /\ timers'[s] \in {timers[s], timers[s] + 1}
                /\ s \in last'.started /\ ok => eng'[s] = "on"
          /\ TimerFire(s, ok) =>
                /\ timers'[s] = timers[s] - 1
                /\ s \in last'.started <=> isActive ]_vars

\* C12 witness: a handler's start() has just thrown and its retry is pending
C12_Witness ==
    \E s \in Sides :
        /\ s \in last.started
        /\ timers[s] > 0
        /\ eng[s] # "on"
        /\ isActive

\* C13: initialize never ends with an exception; it returns true, with the
\* active flag set, exactly when no setup step raised (local start, remote
\* audio graph, remote start, worklet load), and returns false, with the
\* active flag false, when one did.
C13_InitializeReturn ==
    /\ last.ret # "threw"
    /\ last.ret \in {"true", "false"} =>
          /\ last.ret = "true" <=> ~setupRaised
          /\ last.ret = "true" => isActive
          /\ last.ret = "false" => ~isActive

\* C13 in the first class definition, for a first initialize (not a claim)
C13_FirstDefinitionFirstCall ==
    (variant = 1 /\ phase # "stopped" /\ last.ret \in {"true", "false"}) =>
          /\ last.ret = "true" <=> ~setupRaised
          /\ last.ret = "true" => isActive

\* the controller's own fields that stop() is about
StopState ==
    <<isActive, handle, audioContext, captionProcessor, captionHistory,
      currentSpeaker, rendered, hidden>>

\* C17: stop() from any state leaves the active flag false, the transcript
\* empty and currentSpeaker null, calls stop() on each session handle that
\* exists, hides the container and returns without an exception even when a
\* session's stop() throws; a second stop() right after it leaves the
\* controller's state as the first left it.
C17_StopResets ==
    [][ \A thr \in SUBSET Sides :
          Stop(thr) =>
             /\ ~isActive'
             /\ captionHistory' = << >>
             /\ currentSpeaker' = "null"
             /\ hidden'
             /\ last'.stopped = {s \in Sides : handle[s]}
             /\ last'.ret = "none"
             /\ last.stop => UNCHANGED StopState ]_vars

\* C17 witness: stop() has just returned on a controller with both session
\* handles and captions on display, although the stop() of a running
\* session threw (the session still runs)
C17_Witness ==
    /\ last.stop
    /\ last.stopped = Sides
    /\ last.ret = "none"
    /\ \E s \in Sides : eng[s] = "on"
    /\ rendered # << >>
    /\ ~isActive
    /\ captionHistory = << >>
    /\ currentSpeaker = "null"
    /\ hidden

\* a capability is unavailable: no speech-recognition engine, or no audio
\* worklet
CapabilityMissing == ~speechSupported \/ ~audioWorkletSupported

\* C14: with a capability unavailable, an initialize in which no setup step
\* raises still returns true and sets the active flag; the session handles
\* (no engine) and the worklet node (no worklet support) stay null, nothing
\* runs or is retried on a missing handle, and stop() returns normally,
\* calling no stop() on a missing handle.
C14_DegradesWithoutFeature ==
    /\ []( /\ ~speechSupported =>
                \A s \in Sides : ~handle[s] /\ eng[s] = "off" /\ timers[s] = 0
           /\ ~audioWorkletSupported => ~captionProcessor
           /\ \A s \in Sides : ~handle[s] => eng[s] = "off" /\ timers[s] = 0 )
    /\ [][ CapabilityMissing =>
             /\ \A r \in BOOLEAN :
                   (InitializeCall(r, "none") /\ initPc' = "idle") =>
                      last'.ret = "true" /\ isActive'
             /\ (InitializeResume(FALSE) /\ ~setupRaised) =>
                      last'.ret = "true" /\ isActive'
             /\ \A thr \in SUBSET Sides :
                   Stop(thr) =>
                      /\ last'.ret = "none"
                      /\ \A s \in Sides :
                            ~handle[s] => s \notin last'.stopped /\ ~handle'[s]
                      /\ captionProcessor' = captionProcessor ]_vars

\* C14 witness: initialize has returned true for a call with a remote
\* stream where neither the engine nor the audio worklet is supported: the
\* call is active with no session handle and no worklet node
C14_Witness ==
    /\ ~speechSupported
    /\ ~audioWorkletSupported
    /\ last.ret = "true"
    /\ isActive
    /\ audioContext = "running"
    /\ \A s \in Sides : ~handle[s]
    /\ ~captionProcessor

\* the rendered caption lines show the transcript h entry for entry, in
\* order: the speaker as the line's class, the text as its text
Shows(lines, h) ==
    /\ Len(lines) = Len(h)
    /\ \A i \in 1..Len(h) :
          lines[i].class = h[i].speaker /\ lines[i].text = h[i].text

\* C15: right after every updateCaption call that changes the transcript,
\* the rendered caption lines equal the transcript entry for entry, in
\* order.
C15_RenderedAfterUpdate ==
    [][ \A s \in Sides, text \in RawTexts :
          (captionHistory' # captionHistory /\ OnResult(s, text)) =>
             Shows(rendered', captionHistory') ]_vars

\* C15 witness: a two-entry transcript whose last entry has had its text
\* replaced is on display
C15_Witness ==
    /\ Len(captionHistory) = 2
    /\ captionHistory[1].speaker # captionHistory[2].speaker
    /\ captionHistory[2].text = <<"b">>
    /\ captionHistory[1].text = <<"a">>
    /\ Shows(rendered, captionHistory)

\* the step delivers the worklet message at the head of the queue
Delivers == inflight # << >> /\ inflight' = Tail(inflight)

\* C16: handling a worklet message (initialized, speech_start, speech_end,
\* processAudio) never writes the transcript: it leaves captionHistory, the
\* active flag and both session handles unchanged; only speech_start may
\* change currentSpeaker, to remote; every other message changes no
\* controller state.
C16_MessagesLeaveTranscript ==
    [][ Delivers =>
          /\ UNCHANGED <<captionHistory, isActive, handle, rendered>>
          /\ UNCHANGED <<eng, timers, initPc, initRejected, audioContext,
                         captionProcessor, hidden>>
          /\ currentSpeaker' # currentSpeaker =>
                Head(inflight) = "speech_start" /\ currentSpeaker' = "remote"
          /\ Head(inflight) # "speech_start" => UNCHANGED ControllerState ]_vars

\* C16 witness: a speech_start message has been handled after a local
\* fragment: currentSpeaker is remote, the transcript still ends with the
\* local entry
C16_Witness ==
    /\ inflight = << >>
    /\ currentSpeaker = "remote"
    /\ captionHistory # << >>
    /\ captionHistory[Len(captionHistory)].speaker = "local"

\* C18: in the stream of messages the worklet processor posts, initialized
\* is first, speech_start and speech_end strictly alternate beginning with
\* speech_start, and every processAudio lies after a speech_start with no
\* speech_end in between: the stream never goes wrong, and it is open
\* exactly while the detector classifies the audio as speech.
C18_MessageStreamOrder ==
    /\ stream \in {"closed", "open"}
    /\ stream = "open" <=> procIsActive

\* C18 witness: the block that deactivated the detector also filled the
\* window: speech_end was posted and the window was not forwarded
C18_Witness ==
    /\ stream = "closed"
    /\ CountStatus(port, "speech_end") = 1
    /\ Len(port) = 1
    /\ Len(input) >= bufferSize

\* the first n samples of the window, in the order written
Prefix(buf, n) == [i \in 1..n |-> buf[i - 1]]

\* the k-th window (k = 0, 1, ...) of a sequence of samples
Chunk(q, k) == [i \in 0..(bufferSize - 1) |-> q[k * bufferSize + i + 1]]

\* the processAudio messages among msgs
Forwarded(msgs) ==
    SelectSeq(msgs, LAMBDA m : "command" \in DOMAIN m)

\* C19: the accumulation windows tile the input stream, for blocks of any
\* length.  With the samples written since the last full window followed
\* by the block's samples: each full window of that sequence is one filled
\* window, forwarded (while Active) holding exactly those samples in order;
\* the rest is what the window holds of the next one; a forwarded buffer is
\* the window as it was when it filled, whatever is written after it.
C19_WindowsTile ==
    [][ input' # << >> =>
          LET cat == Prefix(buffer, bufferIndex) \o input'
              n   == Len(cat) \div bufferSize
              fw  == Forwarded(port')
          IN  /\ bufferIndex' = Len(cat) - n * bufferSize
              /\ Prefix(buffer', bufferIndex') =
                    SubSeq(cat, n * bufferSize + 1, Len(cat))
              /\ Len(fw) = (IF procIsActive' THEN n ELSE 0)
              /\ \A k \in 1..Len(fw) : fw[k].audioBuffer = Chunk(cat, k - 1)
              /\ (n >= 1 /\ bufferIndex' = 0) => buffer' = Chunk(cat, n - 1) ]_vars

\* C19 witness: one block longer than the window, arriving on a partly
\* filled window, has filled it twice; both windows were forwarded and they
\* differ
C19_Witness ==
    /\ Len(input) > bufferSize
    /\ Len(Forwarded(port)) = 2
    /\ Forwarded(port)[1].audioBuffer # Forwarded(port)[2].audioBuffer
    /\ bufferIndex = 0

\* C20: process() returns true on every call; a call with a missing or
\* empty input block leaves isActive, the quiet-block counter, the window
\* and bufferIndex as they are and posts no message.
C20_EmptyBlockNoEffect ==
    /\ [](alive)
    /\ [][ input' = << >> =>
             /\ UNCHANGED <<procIsActive, silenceFrames, buffer, bufferIndex,
                            quietRun, stream>>
             /\ port' = << >> ]_vars

\* C20 witness: an empty block has been processed while the detector is
\* Active, within the hangover, on a partly filled window
C20_Witness ==
    /\ input = << >>
    /\ port = << >>
    /\ alive
    /\ procIsActive
    /\ silenceFrames = maxSilenceFrames
    /\ bufferIndex > 0

\* C21: updateCaption with an empty or whitespace-only text, or when the
\* captions element does not exist, changes nothing: the transcript,
\* currentSpeaker and the rendered display are left as they are.
C21_BlankFragmentIgnored ==
    [][ \A s \in Sides, text \in RawTexts :
          ((Trim(text) = << >> \/ ~captionsElement) /\ OnResult(s, text)) =>
             /\ UNCHANGED <<captionHistory, currentSpeaker, rendered>>
             /\ last'.ignored ]_vars

\* C21 witness: a fragment has just been ignored while the transcript holds
\* an entry of the other speaker: nothing was appended
C21_Witness ==
    /\ last.ignored
    /\ captionsElement
    /\ Len(captionHistory) = 1
    /\ rendered = RenderLines(captionHistory)
    /\ currentSpeaker = captionHistory[1].speaker

\* the retries pending, over both sessions
PendingRetries == timers["local"] + timers["remote"]

\* C22: retry is bounded per event and not capped over the call.  A
\* termination event handled while active makes at most one start()
\* attempt in its handler and schedules at most one delayed attempt, that
\* only if the first one threw; the delayed attempt re-checks the active
\* flag, calls start() at most once and schedules nothing, also when it
\* throws; no other step schedules a retry.  No count of earlier attempts
\* is kept: an end event handled while active calls start() again however
\* many restarts came before.
C22_RetryBoundedPerEvent ==
    [][ /\ \A s \in Sides, ok \in BOOLEAN :
            /\ Terminated(s, ok) =>
                  /\ last'.started \subseteq {s}
                  /\ PendingRetries' <= PendingRetries + 1
                  /\ PendingRetries' = PendingRetries + 1 =>
                        (isActive /\ s \in last'.started /\ ~ok)
            /\ TimerFire(s, ok) =>
                  /\ PendingRetries' = PendingRetries - 1
                  /\ last'.started \subseteq {s}
                  /\ ~isActive => last'.started = {}
            /\ (OnEnd(s, ok) /\ isActive /\ EndRestarts(s)) =>
                  s \in last'.started
        /\ PendingRetries' > PendingRetries =>
              \E s \in Sides, ok \in BOOLEAN : Terminated(s, ok) ]_vars

\* C22 witness: the delayed attempt of a session has just been made and
\* has thrown: the session is not running, no retry is pending, the call
\* is still active
C22_Witness ==
    \E s \in Sides :
        /\ isActive
        /\ phase = "live"
        /\ last.started = {s}
        /\ timers[s] = 0
        /\ eng[s] = "off"
        /\ last.ret = "none"

\* C23: whenever the transcript is non-empty, currentSpeaker is the speaker
\* of its last entry, and currentSpeaker is null when the controller has
\* just been constructed or stopped; in every reachable state, also after
\* the worklet's speech_start signals.
C23_CurrentSpeakerIsLastEntry ==
    /\ captionHistory # << >> =>
          currentSpeaker = captionHistory[Len(captionHistory)].speaker
    /\ (phase = "fresh" \/ last.stop) => currentSpeaker = "null"

\* C23 without a worklet node (not a claim: there currentSpeaker follows
\* the last entry)
C23_WithoutWorklet ==
    (~captionProcessor /\ captionHistory # << >>) =>
          currentSpeaker = captionHistory[Len(captionHistory)].speaker

\* C24: speaker attribution is never corrupted: handling a fragment leaves
\* every transcript entry either an entry the transcript already held or
\* the entry of that fragment, made of the fragment's own speaker and its
\* trimmed text; so a remote fragment never overwrites the text of an entry
\* labelled local, nor a local one an entry labelled remote.
C24_AttributionKept ==
    [][ \A s \in Sides, text \in RawTexts :
          OnResult(s, text) =>
             \A i \in DOMAIN captionHistory' :
                \/ captionHistory'[i] = Entry(s, text)
                \/ \E j \in DOMAIN captionHistory :
                      captionHistory[j] = captionHistory'[i] ]_vars

\* C24 without a worklet node (not a claim)
C24_WithoutWorklet ==
    [][ \A s \in Sides, text \in RawTexts :
          (OnResult(s, text) /\ ~captionProcessor) =>
             \A i \in DOMAIN captionHistory' :
                \/ captionHistory'[i] = Entry(s, text)
                \/ \E j \in DOMAIN captionHistory :
                      captionHistory[j] = captionHistory'[i] ]_vars

\* C25: once stop() has returned, the transcript stays empty and
\* currentSpeaker stays null until the next initialize(), also when a
\* result event that was already in flight is delivered afterwards.
C25_EmptyAfterStop ==
    phase = "stopped" => (captionHistory = << >> /\ currentSpeaker = "null")

\* C26: when initialize() has returned false nothing is left running: no
\* session started during the failed initialize remains started (so that
\* no transcript update and no restart can follow until a new initialize).
C26_FailedInitializeLeavesNothing ==
    phase = "failed" => \A s \in Sides : eng[s] # "on"

\* C27: whenever the caption container is visible the rendered caption
\* lines equal the transcript; after stop() and a new initialize() the
\* display shows no entry of the previous call.
C27_VisibleRenderIsTranscript ==
    ~hidden => Shows(rendered, captionHistory)

\* the other session
Other(s) == IF s = "local" THEN "remote" ELSE "local"

\* the step handles an event of session s: a result, an error, its end, or
\* the delayed retry of its restart
HandlesEventOf(s) ==
    \/ \E text \in SessionTexts : OnResult(s, text)
    \/ \E ok \in BOOLEAN : Terminated(s, ok) \/ TimerFire(s, ok)

\* C28: the two recognition sessions are independent: handling a result,
\* an error or an end event of one session, its restart and delayed retry
\* included, calls no start() and no stop() on the other session, leaves
\* the other session and its pending retries as they are and replaces no
\* handle.
C28_SessionsIndependent ==
    [][ \A s \in Sides :
          HandlesEventOf(s) =>
             /\ Other(s) \notin last'.started
             /\ last'.stopped = {}
             /\ handle' = handle
             /\ eng'[Other(s)] = eng[Other(s)]
             /\ timers'[Other(s)] = timers[Other(s)] ]_vars

\* C28 witness: the remote session has just been restarted by its own
\* handler while the local session, itself ended, was left alone
C28_Witness ==
    /\ last.started = {"remote"}
    /\ eng["remote"] = "on"
    /\ timers["remote"] = 0
    /\ handle["local"]
    /\ eng["local"] = "off"
    /\ isActive

====
